---- MODULE Spec2Model ----
(***************************************************************************)
(* The persistence layer of xinyi-mahjong (db.js, the second half of       *)
(* src/src/main.jsx): an IndexedDB object store "records" with key path    *)
(* "id" and an index on "date", and the JSON backup / restore built on it. *)
(*                                                                         *)
(* JavaScript values are boxed as [t |-> tag, v |-> payload]; an object's   *)
(* payload is a function from its property names to boxed values, an       *)
(* array's payload a sequence.  A JSON text is a tree of the same leaves in *)
(* which an object is an ordered sequence of <<name, text>> members.        *)
(***************************************************************************)
EXTENDS Integers, Sequences, FiniteSets, TLC

VARIABLES
    store,      \* committed contents of the object store: a set of objects
    dateIndex,  \* committed entries of the "date" index: <<date, primary key>>
    impPc,      \* importBackupJSON: "idle", "open" (awaiting getDB), "put"
    impRecs,    \* importBackupJSON: data.records of the call (a sequence)
    impPos,     \* importBackupJSON: position of the for-of loop
    txStore,    \* the readwrite transaction's view of the object store
    txIndex,    \* the readwrite transaction's view of the index
    reader,     \* a listAll() call that may overlap a restore: its position,
                \* whether it was made during the restore's transaction
                \* (history), and its result
    backup,     \* the text returned by the last exportBackupJSON()
    backupOf,   \* history: the store contents that text was taken from
    last,       \* history: the most recent call, its argument, the store
                \* contents when it was made, and how it ended
    records,    \* App: the records state, what the last refresh() listed
    selected,   \* App: the selected day, as toDateStr gives it
    showForm,   \* App: whether the form is open
    editing,    \* App: the record being edited, or null
    clock,      \* the current time, as new Date() reads it
    issued      \* history: the ids uuidv4() has returned

\* The state of the presentation layer and of its environment.
app == <<records, selected, showForm, editing, clock, issued>>

vars == <<store, dateIndex, impPc, impRecs, impPos, txStore, txIndex,
          reader, backup, backupOf, last, records, selected, showForm,
          editing, clock, issued>>

----------------------------------------------------------------------------
(* Bounds of the model *)

MaxTime == 2        \* timestamps are 1..MaxTime
MaxRecords == 2     \* a hand-written backup document lists at most this many

----------------------------------------------------------------------------
(* JavaScript values *)

Str(s) == [t |-> "str", v |-> s]
Num(n) == [t |-> "num", v |-> n]
Iso(n) == [t |-> "iso", v |-> n]   \* a string holding the ISO-8601 instant n
Arr(q) == [t |-> "arr", v |-> q]
Obj(f) == [t |-> "obj", v |-> f]
Null == [t |-> "null"]
Undefined == [t |-> "undefined"]

Range(q) == {q[i] : i \in 1..Len(q)}

\* x[k] in JavaScript, for x that is not null: undefined unless x is an
\* object that has the property.
Member(x, k) ==
    IF x.t = "obj" /\ k \in DOMAIN x.v THEN x.v[k] ELSE Undefined

\* Array.isArray(x)
IsArrayAnyValue(x) == x.t # "undefined"

IsArray(x) == x.t = "arr"

\* The elements a for-of loop over x visits.
Elements(x) == IF x.t = "arr" THEN x.v ELSE <<>>

\* The object without its property k.
Without(x, k) == Obj([p \in DOMAIN x.v \ {k} |-> x.v[p]])

SeqsUpTo(S, n) == UNION {[1..k -> S] : k \in 0..n}

----------------------------------------------------------------------------
(* JSON texts.  Leaves are written as the boxed values themselves; an     *)
(* object is the sequence of its members in the order they are written,   *)
(* an array the sequence of its elements.                                  *)

TObj(ps) == [t |-> "jobj", v |-> ps]
TArr(q) == [t |-> "jarr", v |-> q]
Garbage == [t |-> "garbage"]      \* a text that is not JSON

\* The order in which the properties of the objects of this program are
\* created, which is the order JSON.stringify writes them in.
KeyOrder ==
    <<"id", "date", "location", "stake", "hands", "net", "updatedAt",
      "createdAt", "app", "exportedAt", "records">>

RECURSIVE JSONstringify(_)
JSONstringifyDropsLocation(x) ==
    CASE x.t = "obj" ->
           LET ks == SelectSeq(KeyOrder, LAMBDA k :
                        k \in DOMAIN x.v /\ k # "location")
           IN  TObj([i \in 1..Len(ks) |->
                        <<ks[i], JSONstringify(x.v[ks[i]])>>])
      [] x.t = "arr" -> TArr([i \in 1..Len(x.v) |-> JSONstringify(x.v[i])])
      [] OTHER -> x

JSONstringify(x) ==
    CASE x.t = "obj" ->
           LET ks == SelectSeq(KeyOrder, LAMBDA k :
                        k \in DOMAIN x.v /\ x.v[k].t # "undefined")
           IN  TObj([i \in 1..Len(ks) |->
                        <<ks[i], JSONstringify(x.v[ks[i]])>>])
      [] x.t = "arr" -> TArr([i \in 1..Len(x.v) |-> JSONstringify(x.v[i])])
      [] OTHER -> x

\* JSON.parse of a text that is JSON: an object gets one property per
\* member name, the last member of a name giving its value.
RECURSIVE JSONparse(_)
JSONparse(n) ==
    CASE n.t = "jobj" ->
           LET ps == n.v
               names == {ps[i][1] : i \in 1..Len(ps)}
               at(k) == CHOOSE i \in 1..Len(ps) :
                            /\ ps[i][1] = k
                            /\ \A j \in (i+1)..Len(ps) : ps[j][1] # k
           IN  Obj([k \in names |-> JSONparse(ps[at(k)][2])])
      [] n.t = "jarr" -> Arr([i \in 1..Len(n.v) |-> JSONparse(n.v[i])])
      [] OTHER -> n

----------------------------------------------------------------------------
(* The storage engine: an object store with key path "id" and a          *)
(* non-unique index "date" on the property "date".                        *)

\* What IndexedDB accepts as a key, among the values JSON can carry.
ValidKey(x) == x.t \in {"str", "num", "iso"}

\* The key path "id" evaluated on a value.
Key(r) == Member(r, "id")

HasKey(r) == ValidKey(Key(r))

\* put: the object replaces the one stored under its key, if any.
StorePutKeepsOld(s, r) == s \cup {r}

StorePutMerges(s, r) ==
    {x \in s : Key(x) # Key(r)} \cup
    {Obj([p \in DOMAIN r.v \cup UNION {DOMAIN x.v : x \in {y \in s : Key(y) = Key(r)}} |->
            IF p \in DOMAIN r.v THEN r.v[p]
            ELSE (CHOOSE x \in s : Key(x) = Key(r)).v[p]])}

StorePut(s, r) == {x \in s : Key(x) # Key(r)} \cup {r}

\* The index entry of the object replaces the one of its key, if any; an
\* object whose "date" is no valid key has no entry.
IndexPutKeepsOld(idx, r) ==
    idx \cup
    (IF ValidKey(Member(r, "date")) THEN {<<Member(r, "date"), Key(r)>>} ELSE {})

IndexPut(idx, r) ==
    {e \in idx : e[2] # Key(r)} \cup
    (IF ValidKey(Member(r, "date")) THEN {<<Member(r, "date"), Key(r)>>} ELSE {})

StoreDeleteAll(s, id) == {}

StoreDelete(s, id) == {x \in s : Key(x) # id}

IndexDelete(idx, id) == {e \in idx : e[2] # id}

StoreClearNothing(s) == s

StoreClear(s) == {}

\* The keys of the model in the engine's key order.
KeySeq == <<Str("a"), Str("b")>>

\* getAll: every stored object, in key order.
GetAll(s) ==
    LET ks == SelectSeq(KeySeq, LAMBDA k : \E x \in s : Key(x) = k)
    IN  [i \in 1..Len(ks) |-> CHOOSE x \in s : Key(x) = ks[i]]

----------------------------------------------------------------------------
(* The records and texts the calls of the model are made with *)

MkRecord(id, date, net, at) ==
    Obj([id |-> Str(id), date |-> Str(date), location |-> Str("X"),
         stake |-> Str("30/10"), hands |-> Num(4), net |-> Num(net),
         updatedAt |-> Iso(at), createdAt |-> Iso(1)])

Ids == {"a", "b"}
Dates == {"2024-05-01", "2024-05-02"}

\* The days that are selected in the calendar: one of each of two years.
Days == {"2024-05-01", "2025-01-03"}

\* The day the calendar opens on.
Today == "2024-05-01"

FullRecords ==
    {MkRecord(id, d, 300, at) : id \in Ids, d \in Dates, at \in 1..MaxTime}

\* Records as the form builds them, and those first saved (updatedAt = 1)
\* without a location.
Records ==
    FullRecords \cup
    {Without(r, "location") : r \in {x \in FullRecords : x.v.updatedAt = Iso(1)}}

\* An object with no "id", and one whose "id" is null.
Keyless ==
    {Without(MkRecord("a", "2024-05-01", 300, 1), "id"),
     Obj([id |-> Null, date |-> Str("2024-05-01"), net |-> Num(300)])}

\* The records of hand-written backup documents: two with the same id and
\* one without an id.
DocRecords ==
    {MkRecord("a", "2024-05-01", -150, 1),
     Without(MkRecord("a", "2024-05-02", 300, 1), "location"),
     Without(MkRecord("b", "2024-05-01", 300, 1), "id")}

\* The records saved before an export.
BackupRecords ==
    {MkRecord("a", "2024-05-01", -150, 1),
     Without(MkRecord("a", "2024-05-02", 300, 1), "location"),
     MkRecord("b", "2024-05-01", 300, 1)}

APP == "xinyi-mahjong"

Document(at, recs) ==
    Obj([app |-> Str(APP), exportedAt |-> Iso(at), records |-> Arr(recs)])

DocTexts ==
    {JSONstringify(Document(1, q)) : q \in SeqsUpTo(DocRecords, MaxRecords)}

\* Not JSON; null; a number; {}; and "records" that is a string, an object
\* and null.
BadTexts ==
    {Garbage, Null, Num(42), TObj(<<>>),
     TObj(<< <<"records", Str("x")>> >>),
     TObj(<< <<"app", Str(APP)>>, <<"records", TObj(<<>>)>> >>),
     TObj(<< <<"records", Null>> >>)}

Texts == BadTexts \cup DocTexts

DeleteIds == {Str("a"), Str("b"), Str("zz")}

----------------------------------------------------------------------------
(* The state after the database was created by the first getDB() *)

NoBackup == [t |-> "none"]

ReaderIdle == [pc |-> "idle", during |-> FALSE, result |-> <<>>]

Init ==
    /\ store = {}
    /\ dateIndex = {}
    /\ impPc = "idle"
    /\ impRecs = <<>>
    /\ impPos = 1
    /\ txStore = {}
    /\ txIndex = {}
    /\ reader = ReaderIdle
    /\ backup = NoBackup
    /\ backupOf = {}
    /\ last = [op |-> "none", arg |-> Undefined, before |-> {}, err |-> "none"]
    /\ records = <<>>
    /\ selected = Today
    /\ showForm = FALSE
    /\ editing = Null
    /\ clock = 1
    /\ issued = {}

Call(op, arg, err) == [op |-> op, arg |-> arg, before |-> store, err |-> err]

----------------------------------------------------------------------------
(* upsertRecord and deleteRecord: one readwrite transaction each.  The    *)
(* caller awaits a restore before it makes another writing call.          *)

UpsertRecord(record) ==
    /\ UNCHANGED app
    /\ impPc = "idle"
    /\ IF HasKey(record)
       THEN /\ store' = StorePut(store, record)
            /\ dateIndex' = IndexPut(dateIndex, record)
            /\ last' = Call("upsert", record, "none")
       ELSE /\ last' = Call("upsert", record, "DataError")
            /\ UNCHANGED <<store, dateIndex>>
    /\ UNCHANGED <<impPc, impRecs, impPos, txStore, txIndex, reader, backup,
                   backupOf>>

DeleteRecord(id) ==
    /\ UNCHANGED app
    /\ impPc = "idle"
    /\ store' = StoreDelete(store, id)
    /\ dateIndex' = IndexDelete(dateIndex, id)
    /\ last' = Call("delete", id, "none")
    /\ UNCHANGED <<impPc, impRecs, impPos, txStore, txIndex, reader, backup,
                   backupOf>>

----------------------------------------------------------------------------
(* exportBackupJSON *)

ExportDocumentSkipsFirst(at, recs) == Document(at, SubSeq(recs, 2, Len(recs)))

\* Lines 50-54: the object that is written out.
ExportDocument(at, recs) == Document(at, recs)

ExportBackup(now) ==
    /\ UNCHANGED app
    /\ impPc = "idle"
    /\ backup' = JSONstringify(ExportDocument(now, GetAll(store)))
    /\ backupOf' = store
    /\ last' = Call("export", Undefined, "none")
    /\ UNCHANGED <<store, dateIndex, impPc, impRecs, impPos, txStore, txIndex,
                   reader>>

----------------------------------------------------------------------------
(* importBackupJSON *)

\* How lines 58-59 end for a text: JSON.parse throws, data.records throws
\* on null, the check of line 59 throws, or none of these.
ImportError(text) ==
    IF text.t = "garbage" THEN "SyntaxError"
    ELSE LET data == JSONparse(text)
         IN  IF data.t = "null" THEN "TypeError"
             ELSE IF ~IsArray(Member(data, "records")) THEN "MalformedBackup"
             ELSE "none"

\* Lines 57-60: parse, validate, and wait for the database.
ImportCall(text) ==
    /\ UNCHANGED app
    /\ impPc = "idle"
    /\ IF ImportError(text) = "none"
       THEN /\ impPc' = "open"
            /\ impRecs' = Elements(Member(JSONparse(text), "records"))
            /\ last' = Call("import", text, "pending")
       ELSE /\ last' = Call("import", text, ImportError(text))
            /\ UNCHANGED <<impPc, impRecs>>
    /\ UNCHANGED <<store, dateIndex, impPos, txStore, txIndex, reader, backup,
                   backupOf>>

\* Lines 61-62: the readwrite transaction starts and clears the store.
ImportBegin ==
    /\ UNCHANGED app
    /\ impPc = "open"
    /\ impPc' = "put"
    /\ impPos' = 1
    /\ txStore' = StoreClear(store)
    /\ txIndex' = {}
    /\ UNCHANGED <<store, dateIndex, impRecs, reader, backup, backupOf, last>>

\* What the engine commits when the transaction has no request left.
Committed(s) == s

\* Lines 63-65: one turn of the loop.  put() throws DataError on a value
\* without a usable key; the exception leaves importBackupJSON, nothing
\* aborts the transaction, and it commits what was done so far.
ImportPut ==
    /\ UNCHANGED app
    /\ impPc = "put"
    /\ impPos <= Len(impRecs)
    /\ LET r == impRecs[impPos]
       IN  IF HasKey(r)
           THEN /\ txStore' = StorePut(txStore, r)
                /\ txIndex' = IndexPut(txIndex, r)
                /\ impPos' = impPos + 1
                /\ UNCHANGED <<store, dateIndex, impPc, impRecs, last>>
           ELSE /\ store' = Committed(txStore)
                /\ dateIndex' = Committed(txIndex)
                /\ impPc' = "idle"
                /\ impPos' = 1
                /\ txStore' = {}
                /\ txIndex' = {}
                /\ impRecs' = <<>>
                /\ last' = [last EXCEPT !.err = "DataError"]
    /\ UNCHANGED <<reader, backup, backupOf>>

\* Line 64, when the engine fails the put request (quota, disk): the
\* request's error aborts the transaction and the promise rejects.
ImportPutFails ==
    /\ UNCHANGED app
    /\ impPc = "put"
    /\ impPos <= Len(impRecs)
    /\ HasKey(impRecs[impPos])
    /\ impPc' = "idle"
    /\ impPos' = 1
    /\ txStore' = {}
    /\ txIndex' = {}
    /\ impRecs' = <<>>
    /\ last' = [last EXCEPT !.err = "AbortError"]
    /\ UNCHANGED <<store, dateIndex, reader, backup, backupOf>>

\* Line 66: the transaction commits.
ImportCommit ==
    /\ UNCHANGED app
    /\ impPc = "put"
    /\ impPos > Len(impRecs)
    /\ store' = Committed(txStore)
    /\ dateIndex' = Committed(txIndex)
    /\ impPc' = "idle"
    /\ impPos' = 1
    /\ txStore' = {}
    /\ txIndex' = {}
    /\ impRecs' = <<>>
    /\ last' = [last EXCEPT !.err = "none"]
    /\ UNCHANGED <<reader, backup, backupOf>>

----------------------------------------------------------------------------
(* listAll, by a caller that does not wait for a restore to end.  Its     *)
(* readonly transaction starts once no readwrite transaction on the store *)
(* that was created before it is still running.                           *)

\* Line 34: the call, which waits for the database.
ListAllCall ==
    /\ UNCHANGED app
    /\ reader.pc = "idle"
    /\ reader' = [pc |-> "open", during |-> impPc = "put", result |-> <<>>]
    /\ UNCHANGED <<store, dateIndex, impPc, impRecs, impPos, txStore, txIndex,
                   backup, backupOf, last>>

\* Line 35: getAll creates its transaction, which runs at once or queues
\* behind the restore's.
ListAllGet ==
    /\ UNCHANGED app
    /\ reader.pc = "open"
    /\ reader' = IF impPc = "put"
                 THEN [reader EXCEPT !.pc = "queued"]
                 ELSE [reader EXCEPT !.pc = "done", !.result = GetAll(store)]
    /\ UNCHANGED <<store, dateIndex, impPc, impRecs, impPos, txStore, txIndex,
                   backup, backupOf, last>>

\* The queued transaction runs when the restore's has finished.
ListAllServe ==
    /\ UNCHANGED app
    /\ reader.pc = "queued"
    /\ impPc # "put"
    /\ reader' = [reader EXCEPT !.pc = "done", !.result = GetAll(store)]
    /\ UNCHANGED <<store, dateIndex, impPc, impRecs, impPos, txStore, txIndex,
                   backup, backupOf, last>>

\* The caller takes the result.
ListAllReturn ==
    /\ UNCHANGED app
    /\ reader.pc = "done"
    /\ reader' = ReaderIdle
    /\ UNCHANGED <<store, dateIndex, impPc, impRecs, impPos, txStore, txIndex,
                   backup, backupOf, last>>

----------------------------------------------------------------------------
(* The store under arbitrary calls, with hand-written backup texts *)

Next ==
    \/ \E r \in Records \cup Keyless : UpsertRecord(r)
    \/ \E id \in DeleteIds : DeleteRecord(id)
    \/ \E text \in Texts : ImportCall(text)
    \/ ImportBegin
    \/ ImportPut
    \/ ImportPutFails
    \/ ImportCommit

Spec == Init /\ [][Next]_vars

(* A restore of a hand-written text with a listAll() that overlaps it *)

\* The writing calls are made when no listAll() is under way, so that a
\* listAll() overlaps the one restore that `last` describes.
NextReader ==
    \/ \E r \in BackupRecords : reader.pc = "idle" /\ UpsertRecord(r)
    \/ \E text \in Texts : reader.pc = "idle" /\ ImportCall(text)
    \/ ImportBegin
    \/ ImportPut
    \/ ImportPutFails
    \/ ImportCommit
    \/ ListAllCall
    \/ ListAllGet
    \/ ListAllServe
    \/ ListAllReturn

SpecReader == Init /\ [][NextReader]_vars

(* Backup and restore of the store's own exports *)

ImportBackup ==
    /\ backup # NoBackup
    /\ ImportCall(backup)

NextBackup ==
    \/ \E r \in BackupRecords : UpsertRecord(r)
    \/ \E id \in DeleteIds : DeleteRecord(id)
    \/ \E now \in 1..MaxTime : ExportBackup(now)
    \/ ImportBackup
    \/ ImportBegin
    \/ ImportPut
    \/ ImportPutFails
    \/ ImportCommit

SpecBackup == Init /\ [][NextBackup]_vars

(* The store under calls with records of any date: a day, the empty     *)
(* string, null, or none at all                                           *)

WithDate(r, d) == Obj([r.v EXCEPT !.date = d])

DateRecords ==
    {MkRecord(id, d, 300, 1) : id \in Ids, d \in Dates \cup {""}} \cup
    {Without(MkRecord(id, "2024-05-01", 300, 1), "date") : id \in Ids}

DateDocRecords ==
    {MkRecord("a", "2024-05-02", 300, 1),
     Without(MkRecord("a", "2024-05-01", 300, 1), "date"),
     WithDate(MkRecord("b", "2024-05-01", 300, 1), Null)}

DateTexts ==
    {JSONstringify(Document(1, q)) : q \in SeqsUpTo(DateDocRecords, MaxRecords)}

NextDates ==
    \/ \E r \in DateRecords : UpsertRecord(r)
    \/ \E id \in DeleteIds : DeleteRecord(id)
    \/ \E text \in DateTexts : ImportCall(text)
    \/ ImportBegin
    \/ ImportPut
    \/ ImportPutFails
    \/ ImportCommit

SpecDates == Init /\ [][NextDates]_vars

----------------------------------------------------------------------------
(* The presentation layer: the calendar, the form and the yearly totals *)

\* Whether a value counts as true in x || y and x ? y : z.
Truthy(x) ==
    CASE x.t \in {"undefined", "null"} -> FALSE
      [] x.t = "str" -> x.v # ""
      [] x.t = "num" -> x.v # 0
      [] OTHER -> TRUE

\* The characters of the strings of the model.
Spell(s) ==
    CASE s = "2024-05-01" -> <<"2", "0", "2", "4", "-", "0", "5", "-", "0", "1">>
      [] s = "2024-05-02" -> <<"2", "0", "2", "4", "-", "0", "5", "-", "0", "2">>
      [] s = "2025-01-03" -> <<"2", "0", "2", "5", "-", "0", "1", "-", "0", "3">>
      [] s = "2024" -> <<"2", "0", "2", "4">>
      [] s = "2025" -> <<"2", "0", "2", "5">>
      [] s = "" -> <<>>

\* s.startsWith(p)
StartsWith(s, p) ==
    /\ Len(Spell(p)) <= Len(Spell(s))
    /\ SubSeq(Spell(s), 1, Len(Spell(p))) = Spell(p)

\* The years new Date().getFullYear() gives in the model, and String(year).
Years == {2024, 2025}

YearString(year) == CASE year = 2024 -> "2024" [] year = 2025 -> "2025"

\* Lines 60-62: the records of the selected day.
RecordsOfDay(recs, day) ==
    SelectSeq(recs, LAMBDA r : Member(r, "date") = Str(day))

\* Lines 72-75: the records whose date starts with the year.
YearRecords(recs, year) ==
    SelectSeq(recs, LAMBDA r :
        StartsWith(IF Truthy(Member(r, "date")) THEN Member(r, "date").v ELSE "",
                   YearString(year)))

\* Number(r.net || 0), for a net that is a number or missing.
NetOf(r) == IF Truthy(Member(r, "net")) THEN Member(r, "net").v ELSE 0

Abs(n) == IF n < 0 THEN 0 - n ELSE n

\* Lines 77-88: the totals of the year's records.
RECURSIVE Stats(_)
StatsLossSigned(q) ==
    IF q = <<>> THEN [win |-> 0, loss |-> 0, net |-> 0]
    ELSE LET s == Stats(SubSeq(q, 1, Len(q) - 1))
             n == NetOf(q[Len(q)])
         IN  [win |-> IF n > 0 THEN s.win + n ELSE s.win,
              loss |-> IF n < 0 THEN s.loss + n ELSE s.loss,
              net |-> s.net + n]

Stats(q) ==
    IF q = <<>> THEN [win |-> 0, loss |-> 0, net |-> 0]
    ELSE LET s == Stats(SubSeq(q, 1, Len(q) - 1))
             n == NetOf(q[Len(q)])
         IN  [win |-> IF n > 0 THEN s.win + n ELSE s.win,
              loss |-> IF n < 0 THEN s.loss + Abs(n) ELSE s.loss,
              net |-> s.net + n]

\* The nets that are typed into the form.
Nets == {300, -150}

\* Lines 721-730: the record the form's button builds.  The form is given
\* the selected day as its date; location, stake and hands are left as the
\* form shows them.
FormRecordResetsCreated(ed, day, net, now, uuid) ==
    Obj([id |-> IF Truthy(Member(ed, "id")) THEN Member(ed, "id") ELSE Str(uuid),
         date |-> Str(day), location |-> Str("X"), stake |-> Str("30/10"),
         hands |-> Num(4), net |-> Num(net), updatedAt |-> Iso(now),
         createdAt |-> Iso(now)])

FormRecord(ed, day, net, now, uuid) ==
    Obj([id |-> IF Truthy(Member(ed, "id")) THEN Member(ed, "id") ELSE Str(uuid),
         date |-> Str(day), location |-> Str("X"), stake |-> Str("30/10"),
         hands |-> Num(4), net |-> Num(net), updatedAt |-> Iso(now),
         createdAt |-> IF Truthy(Member(ed, "createdAt"))
                       THEN Member(ed, "createdAt") ELSE Iso(now)])

db == <<impPc, impRecs, impPos, txStore, txIndex, reader, backup, backupOf>>

\* Time passes.
Tick ==
    /\ clock < MaxTime
    /\ clock' = clock + 1
    /\ UNCHANGED <<db, store, dateIndex, last, records, selected, showForm,
                   editing, issued>>

\* Line 233: a day is picked in the calendar, which the open form covers.
SelectDay(day) ==
    /\ ~showForm
    /\ selected' = day
    /\ UNCHANGED <<db, store, dateIndex, last, records, showForm, editing,
                   clock, issued>>

\* Line 294: the button that opens the form for a new record.
OpenNew ==
    /\ ~showForm
    /\ showForm' = TRUE
    /\ UNCHANGED <<db, store, dateIndex, last, records, selected, editing,
                   clock, issued>>

\* Lines 434-437: the edit button of a record of the selected day.
OpenEdit(r) ==
    /\ ~showForm
    /\ r \in Range(RecordsOfDay(records, selected))
    /\ editing' = r
    /\ showForm' = TRUE
    /\ UNCHANGED <<db, store, dateIndex, last, records, selected, clock,
                   issued>>

\* Lines 458-461: the form is closed without saving.
CloseForm ==
    /\ showForm
    /\ showForm' = FALSE
    /\ editing' = Null
    /\ UNCHANGED <<db, store, dateIndex, last, records, selected, clock,
                   issued>>

\* Lines 100-105, called by the form's button with the record it built:
\* upsertRecord, the form closes, refresh.  uuidv4() is called for a new
\* record only and never returns an id twice.
HandleSave(net, uuid) ==
    /\ showForm
    /\ impPc = "idle"
    /\ IF Truthy(Member(editing, "id"))
       THEN issued' = issued
       ELSE uuid \notin issued /\ issued' = issued \cup {uuid}
    /\ LET record == FormRecord(editing, selected, net, clock, uuid)
       IN  /\ store' = StorePut(store, record)
           /\ dateIndex' = IndexPut(dateIndex, record)
           /\ last' = Call("upsert", record, "none")
    /\ showForm' = FALSE
    /\ editing' = Null
    /\ records' = GetAll(store')
    /\ UNCHANGED <<db, selected, clock>>

\* Lines 107-112, from the delete button of a record of the selected day,
\* when the question is confirmed: deleteRecord, refresh.
HandleDelete(r) ==
    /\ ~showForm
    /\ impPc = "idle"
    /\ r \in Range(RecordsOfDay(records, selected))
    /\ store' = StoreDelete(store, Key(r))
    /\ dateIndex' = IndexDelete(dateIndex, Key(r))
    /\ last' = Call("delete", Key(r), "none")
    /\ records' = GetAll(store')
    /\ UNCHANGED <<db, selected, showForm, editing, clock, issued>>

NextApp ==
    \/ Tick
    \/ \E day \in Days : SelectDay(day)
    \/ OpenNew
    \/ \E r \in Range(records) : OpenEdit(r)
    \/ CloseForm
    \/ \E net \in Nets, uuid \in Ids : HandleSave(net, uuid)
    \/ \E r \in Range(records) : HandleDelete(r)

SpecApp == Init /\ [][NextApp]_vars

----------------------------------------------------------------------------
(* Properties *)

\* The records a text's document lists: data.records, when it is an array.
DocOf(text) == Elements(Member(JSONparse(text), "records"))

\* The text is an object whose "records" member is an array.
HasRecordsArray(text) ==
    /\ text.t = "jobj"
    /\ \E i \in 1..Len(text.v) :
          /\ text.v[i][1] = "records"
          /\ text.v[i][2].t = "jarr"
          /\ \A j \in (i+1)..Len(text.v) : text.v[j][1] # "records"

\* The records of a sequence, the last one of each id only.
LastWins(q) ==
    {q[i] : i \in {n \in 1..Len(q) :
                      \A j \in (n+1)..Len(q) : Key(q[j]) # Key(q[n])}}

Others(s, k) == {x \in s : Key(x) # k}

\* What listAll() returns now, as a set.
Listed == Range(GetAll(store))

\* C1: when an importBackup call has ended, with or without an error, the
\* store holds either what it held when the call was made or exactly the
\* records of the document, never nothing and never a prefix of them.
RestoreAllOrNothing ==
    (last.op = "import" /\ impPc = "idle") =>
        \/ Listed = last.before
        \/ HasRecordsArray(last.arg) /\ Listed = LastWins(DocOf(last.arg))

\* C2: importBackup of a text that gives no document whose "records" is an
\* array ends with an error, never starts a transaction, and leaves the
\* store as it was when the call was made.
MalformedLeavesStore ==
    (last.op = "import" /\ ~HasRecordsArray(last.arg)) =>
        /\ last.err \in {"SyntaxError", "TypeError", "MalformedBackup"}
        /\ impPc = "idle"
        /\ Listed = last.before

MalformedRejected ==
    /\ last.op = "import"
    /\ last.arg.t = "jobj"
    /\ ~HasRecordsArray(last.arg)
    /\ last.err = "MalformedBackup"
    /\ Cardinality(store) = 2

\* C3: a listAll() made while a restore's transaction is under way returns
\* the whole set of before the restore or the whole set of the document,
\* never an empty or partly repopulated one.
ReaderSeesWholeSet ==
    (reader.pc = "done" /\ reader.during) =>
        \/ Range(reader.result) = last.before
        \/ Range(reader.result) = LastWins(DocOf(last.arg))

\* C4: after importBackup has succeeded the store holds exactly the
\* document's records, the last one of each id: what was stored before and
\* is not in the document is gone.
RestoreReplaces ==
    (last.op = "import" /\ last.err = "none") =>
        /\ impPc = "idle"
        /\ Listed = LastWins(DocOf(last.arg))

RestoreReplaced ==
    /\ last.op = "import"
    /\ last.err = "none"
    /\ last.before \ store # {}
    /\ store # {}
    /\ Len(DocOf(last.arg)) > Cardinality(store)

\* C5: importBackup of the text exportBackup returned leaves the store
\* holding the records it held at the export, whatever was saved or deleted
\* in between.
RoundTrip ==
    (last.op = "import" /\ last.err = "none") =>
        (last.arg = backup /\ Listed = backupOf)

RoundTripDone ==
    /\ last.op = "import"
    /\ last.err = "none"
    /\ Cardinality(backupOf) = 2
    /\ last.before # backupOf
    /\ last.before # {}
    /\ store = backupOf

\* C6: after upsertRecord(r) listAll() has r itself, no other record of
\* r's id, and every record of another id as it was.
UpsertReplaces ==
    (last.op = "upsert" /\ last.err = "none") =>
        /\ last.arg \in Listed
        /\ \A x \in Listed : Key(x) = Key(last.arg) => x = last.arg
        /\ Others(Listed, Key(last.arg)) = Others(last.before, Key(last.arg))

UpsertReplaced ==
    /\ last.op = "upsert"
    /\ last.err = "none"
    /\ "location" \notin DOMAIN last.arg.v
    /\ \E x \in last.before :
          Key(x) = Key(last.arg) /\ "location" \in DOMAIN x.v
    /\ Others(store, Key(last.arg)) # {}

\* C7: after deleteRecord(id) no record has that id and the others are as
\* they were; with no record of that id nothing changes and nothing throws.
DeleteRemovesOne ==
    last.op = "delete" =>
        /\ last.err = "none"
        /\ \A x \in Listed : Key(x) # last.arg
        /\ Listed = Others(last.before, last.arg)
        /\ (\A x \in last.before : Key(x) # last.arg) => Listed = last.before

DeleteRemoved ==
    /\ last.op = "delete"
    /\ \E x \in last.before : Key(x) = last.arg
    /\ store # {}

DeleteOfAbsent ==
    /\ last.op = "delete"
    /\ last.arg = Str("zz")
    /\ store # {}

\* C8: upsertRecord of a record right after upsertRecord of the same record
\* but for updatedAt leaves one record of that id, with the record's net,
\* date, location, stake and hands, and the other records as they were.
SameButUpdatedAt(a, b) == Without(a, "updatedAt") = Without(b, "updatedAt")

UpsertIdempotent ==
    [][\A r \in Records :
          (/\ last.op = "upsert"
           /\ last.err = "none"
           /\ SameButUpdatedAt(last.arg, r)
           /\ UpsertRecord(r))
          => /\ Cardinality({x \in store' : Key(x) = Key(r)}) = 1
             /\ \A x \in store' : Key(x) = Key(r) =>
                   \A k \in {"net", "date", "location", "stake", "hands"} :
                       Member(x, k) = Member(r, k)
             /\ Others(store', Key(r)) = Others(store, Key(r))]_vars

UpsertedTwice ==
    /\ last.op = "upsert"
    /\ last.err = "none"
    /\ \E x \in last.before :
          SameButUpdatedAt(x, last.arg) /\ x # last.arg
    /\ Cardinality(store) = 2

\* C9: exportBackup returns a document with an app tag, a timestamp and
\* the records listAll() gives at that moment, each once; an empty store
\* gives an empty sequence; the store is left as it was.
ExportIsListAll ==
    last.op = "export" =>
        LET d == JSONparse(backup)
        IN  /\ last.err = "none"
            /\ store = last.before
            /\ backup.t = "jobj"
            /\ Member(d, "app").t = "str"
            /\ Member(d, "exportedAt").t = "iso"
            /\ IsArray(Member(d, "records"))
            /\ Range(Member(d, "records").v) = Listed
            /\ Len(Member(d, "records").v) = Cardinality(Listed)

Exported ==
    /\ last.op = "export"
    /\ Cardinality(store) = 2
    /\ \E x \in store : "location" \notin DOMAIN x.v

ExportedEmpty ==
    /\ last.op = "export"
    /\ store = {}
    /\ DocOf(backup) = <<>>

\* C10: no two stored records have the same id, in the store and in the
\* view of a restore's transaction.
UniqueIds ==
    /\ \A x, y \in store : Key(x) = Key(y) => x = y
    /\ \A x, y \in txStore : Key(x) = Key(y) => x = y
    /\ \A x \in store \cup txStore : HasKey(x)

IdReplaced ==
    /\ Cardinality(store) = 2
    /\ \E x \in last.before : \E y \in store : Key(x) = Key(y) /\ x # y

\* The primary keys the index gives for a date.
IndexKeys(idx, D) == {e[2] : e \in {f \in idx : f[1] = D}}

\* The keys of the records of a set whose date is D: the filter of
\* recordsOfDay.
KeysOfDay(s, D) == {Key(x) : x \in {y \in s : Member(y, "date") = D}}

DateKeys(idx) == {Str(d) : d \in Dates \cup {""}} \cup {e[1] : e \in idx}

\* C11: for every date the index gives exactly the records of listAll()
\* that have this date, in the store and in the view of a restore's
\* transaction: no entry is stale and none is missing.
DateIndexMatches ==
    /\ \A D \in DateKeys(dateIndex) :
          IndexKeys(dateIndex, D) = KeysOfDay(Listed, D)
    /\ \A D \in DateKeys(txIndex) :
          IndexKeys(txIndex, D) = KeysOfDay(txStore, D)

DateReplaced ==
    /\ last.op = "upsert"
    /\ last.err = "none"
    /\ \E x \in last.before :
          /\ Key(x) = Key(last.arg)
          /\ Member(x, "date") = Str("2024-05-01")
          /\ Member(last.arg, "date") = Str("")
    /\ \E x \in store : Member(x, "date") = Null

\* C12: every stored record has a date that is a non-empty string.
EveryRecordDated ==
    \A x \in Listed :
        Member(x, "date").t = "str" /\ Member(x, "date") # Str("")

\* C13: across the writes of the form, under a clock that does not go
\* back, a record keeps its createdAt, its updatedAt never decreases, and
\* the record a save writes has the current time as updatedAt (and as
\* createdAt when the save creates it).
TimestampsKept ==
    [][/\ clock' >= clock
       /\ \A x \in store : \A y \in store' :
             Key(x) = Key(y) =>
                /\ Member(y, "createdAt") = Member(x, "createdAt")
                /\ Member(y, "updatedAt").v >= Member(x, "updatedAt").v
       /\ (last' # last /\ last'.op = "upsert") =>
             /\ last'.arg \in store'
             /\ Member(last'.arg, "updatedAt") = Iso(clock)
             /\ (\A x \in store : Key(x) # Key(last'.arg)) =>
                   Member(last'.arg, "createdAt") = Iso(clock)]_vars

EditedLater ==
    /\ last.op = "upsert"
    /\ last.arg \in store
    /\ Member(last.arg, "createdAt") = Iso(1)
    /\ Member(last.arg, "updatedAt") = Iso(2)
    /\ \E x \in last.before :
          /\ Key(x) = Key(last.arg)
          /\ Member(x, "updatedAt") = Iso(1)
          /\ Member(x, "net") # Member(last.arg, "net")

\* The sum of the nets of a set of records.
RECURSIVE SumNet(_)
SumNet(S) ==
    IF S = {} THEN 0
    ELSE LET x == CHOOSE y \in S : TRUE
         IN  Member(x, "net").v + SumNet(S \ {x})

\* The days of a year.
DaysOf(year) ==
    IF year = 2024 THEN {Str("2024-05-01"), Str("2024-05-02")}
    ELSE {Str("2025-01-03")}

WonAndLostOverYears ==
    /\ Cardinality(store) = 2
    /\ Stats(YearRecords(records, 2024)).net = 300
    /\ Stats(YearRecords(records, 2025)).net = -150

====
